---------------------------- MODULE Spec2Model ----------------------------
(***************************************************************************)
(* Model of the nut-wars game core: Animation (animation.rs), the actor    *)
(* operations of Character / Char_action (main.rs, char_action.rs), the    *)
(* GameState (game_state.rs) and the per-tick update of the event loop     *)
(* (main.rs, Event::MainEventsCleared).                                    *)
(*                                                                         *)
(* f32 quantities are held as integers in tenths (Scale = 10): every       *)
(* number the code adds or compares is a multiple of 0.1 (2.0, 0.1, 60.0,  *)
(* 768.0, integer respawn columns), so 0.1 is one unit.  Rounding of the   *)
(* accumulated f32 sum speed += 0.1 is not modelled.                       *)
(***************************************************************************)
EXTENDS Integers, Sequences, FiniteSets, TLC

VARIABLES
    squirrel,     \* the player Character           (main.rs:478)
    acorn,        \* the falling Character          (main.rs:486)
    sprites,      \* Vec<GPUSprite>, two slots      (main.rs:450)
    gs,           \* GameState: score, score_changing
    nut_count,    \* main.rs:403
    input,        \* what the input service reports to the next tick
    hit,          \* the last tick took the collision branch (main.rs:742)
    ticks,        \* number of MainEventsCleared handled so far
    since,        \* ticks handled since the last collision branch
    tickInput,    \* what the last tick read from the input service
    everHeld,     \* some tick so far has read left or right as held
    anim,         \* a stand-alone Animation
    animPrev,     \* that Animation before the last call made on it
    animStart,    \* that Animation when the current run of tick() calls began
    animTicks,    \* tick() calls made on it since animStart
    animOp,       \* last call made on it: "new", "tick" or "stop"
    animOp2,      \* the call before that one
    stopTicks,    \* tick() calls made by the last stop()
    actor,        \* a stand-alone actor
    actorPrev,    \* that actor before the last call made on it
    actorOp,      \* last call made on it: "new", "face_left", "walk", "move_down", ..
    actorOp2      \* the call before that one

gameVars  == <<squirrel, acorn, sprites, gs, nut_count, input, hit, ticks, since,
               tickInput, everHeld>>
animVars  == <<anim, animPrev, animStart, animTicks, animOp, animOp2, stopTicks>>
actorVars == <<actor, actorPrev, actorOp, actorOp2>>

vars == <<gameVars, animVars, actorVars>>

---------------------------------------------------------------------------
(* Numbers of the program, in tenths where they are f32.                   *)

Scale == 10
TopY == 768 * Scale            \* reset height of move_down / reset_y
RandMax == 1024                \* gen_range(0..1025) yields 0..1024
FlipOffset == 60 * Scale       \* x shift of face_left / face_right
SpeedInc == 1                  \* acorn.speed += 0.1
SquirrelSpeed == 2 * Scale
AcornSpeed == 2 * Scale
SquirrelRate == 7
AcornRate == 7
SquirrelRegion == <<32 * Scale, 32 * Scale, 100 * Scale, 100 * Scale>>
AcornRegion == <<20 * Scale, 200 * Scale, 55 * Scale, 55 * Scale>>
NutSheet == 0                  \* the single sheet region of the nut

(* Bounds of the exploration.                                              *)
MaxTicks == 104                \* ticks followed from game start
MaxAfter == 4                  \* ticks followed after a collision
MinX == 28                     \* the player is kept within MinX..MaxX
MaxX == 100
NumX == 2                      \* respawn columns tried: k * 1024 / NumX
MaxFrames == 5                 \* stand-alone Animation: 1..MaxFrames frames
MaxRate == 7                   \*   and rate 0..MaxRate
StopFuel == 64                 \* loop iterations of stop() followed
ActorRange == 70               \* stand-alone actor walks within +-ActorRange
MaxNuts == 2                   \* stand-alone falling actor: speed after 0..MaxNuts nuts

---------------------------------------------------------------------------
(* Animation (animation.rs)                                                *)

NewAnimation(states, rate) ==
    [states |-> states, frame_counter |-> 0, rate |-> rate, state_number |-> 0]

\* tick() that forgets to reset frame_counter
Tick_NoReset(a) ==
    LET fc == a.frame_counter + 1 IN
    IF fc > a.rate
    THEN LET sn == a.state_number + 1 IN
         [a EXCEPT !.state_number = IF sn >= Len(a.states) - 1 THEN 0 ELSE sn,
                   !.frame_counter = fc]
    ELSE [a EXCEPT !.frame_counter = fc]

\* tick() that never goes back to the first frame
Tick_NoWrap(a) ==
    LET fc == a.frame_counter + 1 IN
    IF fc > a.rate
    THEN [a EXCEPT !.state_number = @ + 1, !.frame_counter = 0]
    ELSE [a EXCEPT !.frame_counter = fc]

\* tick() that wraps only past the last frame (>= len instead of >= len - 1)
Tick_WrapAtLen(a) ==
    LET fc == a.frame_counter + 1 IN
    IF fc > a.rate
    THEN LET sn == a.state_number + 1 IN
         [a EXCEPT !.state_number = IF sn >= Len(a.states) THEN 0 ELSE sn,
                   !.frame_counter = 0]
    ELSE [a EXCEPT !.frame_counter = fc]

Tick(a) ==
    LET fc == a.frame_counter + 1 IN
    IF fc > a.rate
    THEN LET sn == a.state_number + 1 IN
         [a EXCEPT !.state_number = IF sn >= Len(a.states) - 1 THEN 0 ELSE sn,
                   !.frame_counter = 0]
    ELSE [a EXCEPT !.frame_counter = fc]

RECURSIVE StopLoop(_, _)
StopLoop(a, n) ==
    IF a.state_number # 0 /\ n < StopFuel
    THEN StopLoop(Tick(a), n + 1)
    ELSE [animation |-> a, ticks |-> n]

\* stop() with "if" in place of "while"
Stop_OneTick(a) == IF a.state_number # 0 THEN Tick(a) ELSE a

Stop(a) == StopLoop(a, 0).animation

\* states[state_number], the vector being indexed from 0
GetCurrentState(a) == a.states[a.state_number + 1]

---------------------------------------------------------------------------
(* Character (main.rs) / Char_action (char_action.rs)                      *)

X(c) == c.screen_region[1]
Y(c) == c.screen_region[2]
W(c) == c.screen_region[3]
H(c) == c.screen_region[4]

Walk(c) ==
    IF c.facing_right
    THEN [c EXCEPT !.screen_region[1] = @ + c.speed]
    ELSE [c EXCEPT !.screen_region[1] = @ - c.speed]

\* face_left() without the width guard
FaceLeft_NoGuard(c) ==
    LET d == [c EXCEPT !.facing_right = FALSE] IN
    [d EXCEPT !.screen_region[3] = -@, !.screen_region[1] = @ - FlipOffset]

\* face_left() that shifts x the wrong way
FaceLeft_ShiftRight(c) ==
    LET d == [c EXCEPT !.facing_right = FALSE] IN
    IF W(d) < 0
    THEN [d EXCEPT !.screen_region[3] = -@, !.screen_region[1] = @ + FlipOffset]
    ELSE d

FaceLeft(c) ==
    LET d == [c EXCEPT !.facing_right = FALSE] IN
    IF W(d) < 0
    THEN [d EXCEPT !.screen_region[3] = -@, !.screen_region[1] = @ - FlipOffset]
    ELSE d

\* face_right() guarded by width < 0
FaceRight_GuardNegative(c) ==
    LET d == [c EXCEPT !.facing_right = TRUE] IN
    IF W(d) < 0
    THEN [d EXCEPT !.screen_region[3] = -@, !.screen_region[1] = @ + FlipOffset]
    ELSE d

FaceRight(c) ==
    LET d == [c EXCEPT !.facing_right = TRUE] IN
    IF W(d) > 0
    THEN [d EXCEPT !.screen_region[3] = -@, !.screen_region[1] = @ + FlipOffset]
    ELSE d

\* rx is the column drawn by rand::thread_rng().gen_range(0..1025)
ResetY(c, rx) ==
    [c EXCEPT !.screen_region[2] = TopY, !.screen_region[1] = rx * Scale]

\* move_down() that tests y before subtracting the speed
MoveDown_TestFirst(c, rx) ==
    IF Y(c) <= 0
    THEN ResetY(c, rx)
    ELSE [c EXCEPT !.screen_region[2] = @ - c.speed]

\* move_down() that respawns only below 0 (< in place of <=)
MoveDown_StrictBelow(c, rx) ==
    LET d == [c EXCEPT !.screen_region[2] = @ - c.speed] IN
    IF Y(d) < 0 THEN ResetY(d, rx) ELSE d

MoveDown(c, rx) ==
    LET d == [c EXCEPT !.screen_region[2] = @ - c.speed] IN
    IF Y(d) <= 0 THEN ResetY(d, rx) ELSE d

\* the columns the random generator is let to draw
RandX == { (k * RandMax) \div NumX : k \in 0..NumX }

---------------------------------------------------------------------------
(* GameState (game_state.rs)                                               *)

init_game_state == [score |-> 0, score_changing |-> FALSE]

---------------------------------------------------------------------------
(* The game: run (main.rs)                                                 *)

\* squirrel_sheet_positions: the five sheet regions, named by their number
SquirrelStates == <<1, 2, 3, 4, 5>>

InitSprites ==
    << [screen_region |-> SquirrelRegion, sheet_region |-> SquirrelStates[1]],
       [screen_region |-> AcornRegion,    sheet_region |-> NutSheet] >>

InitSquirrel ==
    [screen_region |-> InitSprites[1].screen_region,
     animation     |-> NewAnimation(SquirrelStates, SquirrelRate),
     speed         |-> SquirrelSpeed,
     facing_right  |-> TRUE,
     sprites_index |-> 0]

InitAcorn ==
    [screen_region |-> InitSprites[2].screen_region,
     animation     |-> NewAnimation(<<InitSprites[2].sheet_region>>, AcornRate),
     speed         |-> AcornSpeed,
     facing_right  |-> TRUE,
     sprites_index |-> 1]

\* What one tick reads from the input service: is_key_down(Left),
\* is_key_down(Right) and is_key_up(Left) || is_key_up(Right).  The third
\* is read only when neither key is down.  The service (mod input) is not
\* part of the sources at hand, so its answers are left unconstrained.
Inputs ==
    { i \in [left : BOOLEAN, right : BOOLEAN, up : BOOLEAN] :
          (i.left \/ i.right) => ~i.up }

NoInput == [left |-> FALSE, right |-> FALSE, up |-> FALSE]

\* the player's branch with the right key tested first
MoveSquirrel_RightFirst(s, in) ==
    IF in.right
    THEN LET w == Walk(FaceRight(s)) IN [w EXCEPT !.animation = Tick(@)]
    ELSE IF in.left
    THEN LET w == Walk(FaceLeft(s)) IN [w EXCEPT !.animation = Tick(@)]
    ELSE IF in.up
    THEN [s EXCEPT !.animation = Stop(@)]
    ELSE s

\* the player's branch without the key-up branch
MoveSquirrel_NoStop(s, in) ==
    IF in.left
    THEN LET w == Walk(FaceLeft(s)) IN [w EXCEPT !.animation = Tick(@)]
    ELSE IF in.right
    THEN LET w == Walk(FaceRight(s)) IN [w EXCEPT !.animation = Tick(@)]
    ELSE s

\* the player's branch of the tick (main.rs:696-718)
MoveSquirrel(s, in) ==
    IF in.left
    THEN LET w == Walk(FaceLeft(s)) IN [w EXCEPT !.animation = Tick(@)]
    ELSE IF in.right
    THEN LET w == Walk(FaceRight(s)) IN [w EXCEPT !.animation = Tick(@)]
    ELSE IF in.up
    THEN [s EXCEPT !.animation = Stop(@)]
    ELSE s

\* main.rs:720-723
Publish(sp, s, a) ==
    [sp EXCEPT ![s.sprites_index + 1] =
                    [screen_region |-> s.screen_region,
                     sheet_region  |-> GetCurrentState(s.animation)],
               ![a.sprites_index + 1].screen_region = a.screen_region]

\* the player's box normalised by the sign of the width, not by facing_right
SquirrelBox_BySign(sp, s) ==
    LET r == sp[s.sprites_index + 1].screen_region IN
    IF r[3] < 0 THEN <<r[1] + r[3], r[2], -r[3], r[4]>> ELSE r

\* the player's box of the overlap test (main.rs:730-739): <<x, y, w, h>>
SquirrelBox(sp, s) ==
    LET r == sp[s.sprites_index + 1].screen_region IN
    IF s.facing_right THEN <<r[1] + r[3], r[2], -r[3], r[4]>> ELSE r

\* main.rs:742-743
Overlap(a, s) ==
    /\ a[1] + a[3] > s[1]
    /\ a[1] < s[1] + s[3]
    /\ a[2] - a[4] < s[2]
    /\ a[2] > s[2] - s[4]

\* the score update with the edge flag tested the wrong way round
ScoreOnHit_Inverted(g) ==
    IF g.score_changing
    THEN [g EXCEPT !.score = @ + 1, !.score_changing = TRUE]
    ELSE g

\* the score update counting the nut twice
ScoreOnHit_Twice(g) ==
    IF ~g.score_changing
    THEN [g EXCEPT !.score = @ + 2, !.score_changing = TRUE]
    ELSE g

\* main.rs:749-755
ScoreOnHit(g) ==
    IF ~g.score_changing
    THEN [g EXCEPT !.score = @ + 1, !.score_changing = TRUE]
    ELSE g

\* the branch without overlap leaving the flag as it is
ClearFlag_Forgotten(g) == g

\* main.rs:758, the branch without overlap
ClearFlag(g) == [g EXCEPT !.score_changing = FALSE]

\* the collision branch without the speed-up
Collect_NoSpeedUp(a, rx) == ResetY(a, rx)

\* main.rs:746-747: acorn.speed += 0.1; acorn.reset_y()
Collect(a, rx) == ResetY([a EXCEPT !.speed = @ + SpeedInc], rx)

\* the columns gen_range is let to draw when the respawn branch is taken
Draws(taken) == IF taken THEN RandX ELSE {0}

\* the state run has built when the event loop starts; the stand-alone
\* Animation and actor are idle in the game
Init ==
    /\ squirrel = InitSquirrel
    /\ acorn = InitAcorn
    /\ sprites = InitSprites
    /\ gs = init_game_state
    /\ nut_count = 0
    /\ input = NoInput
    /\ hit = FALSE
    /\ ticks = 0
    /\ since = 0
    /\ tickInput = NoInput
    /\ everHeld = FALSE
    /\ anim = NewAnimation(<<1>>, 0)
    /\ animPrev = anim
    /\ animStart = anim
    /\ animTicks = 0
    /\ animOp = "new"
    /\ animOp2 = "new"
    /\ stopTicks = 0
    /\ actor = InitSquirrel
    /\ actorPrev = actor
    /\ actorOp = "new"
    /\ actorOp2 = "new"

\* Event::WindowEvent KeyboardInput: the input service takes a key event
KeyboardInput ==
    /\ \E i \in Inputs : i # input /\ input' = i
    /\ UNCHANGED <<squirrel, acorn, sprites, gs, nut_count, hit, ticks, since,
                   tickInput, everHeld>>
    /\ UNCHANGED <<animVars, actorVars>>

\* Event::MainEventsCleared: one tick of the game
MainEventsCleared ==
    /\ ticks < MaxTicks
    /\ nut_count = 0 \/ since < MaxAfter
    /\ LET s1 == MoveSquirrel(squirrel, input) IN
       /\ X(s1) >= MinX * Scale
       /\ X(s1) <= MaxX * Scale
       /\ \E rx1 \in Draws(Y(acorn) - acorn.speed <= 0) :
            LET a1 == MoveDown(acorn, rx1)
                sp == Publish(sprites, s1, a1)
                collide == Overlap(sp[a1.sprites_index + 1].screen_region,
                                   SquirrelBox(sp, s1))
            IN  /\ squirrel' = s1
                /\ sprites' = sp
                /\ hit' = collide
                /\ IF collide
                   THEN /\ nut_count' = nut_count + 1
                        /\ \E rx2 \in RandX :
                             acorn' = Collect(a1, rx2)
                        /\ gs' = ScoreOnHit(gs)
                        /\ since' = 0
                   ELSE /\ nut_count' = nut_count
                        /\ acorn' = a1
                        /\ gs' = ClearFlag(gs)
                        /\ since' = IF nut_count = 0 THEN 0 ELSE since + 1
    /\ ticks' = ticks + 1
    /\ tickInput' = input
    /\ everHeld' = (everHeld \/ input.left \/ input.right)
    /\ UNCHANGED input
    /\ UNCHANGED <<animVars, actorVars>>

Next == KeyboardInput \/ MainEventsCleared

Spec == Init /\ [][Next]_vars


---------------------------------------------------------------------------
(* A stand-alone Animation driven by tick() and stop() (animation.rs).     *)
(* The frame list is <<1, .., n>>; a run of tick() calls is counted from   *)
(* construction or from the last stop(), for at most RunCap calls.         *)

RunCap == MaxRate + 2

Frames(n) == [i \in 1..n |-> i]

\* Animation { states, frame_counter: 0, rate, state_number: 0 } with any
\* non-empty frame list and any rate >= 0
InitAnimNew ==
    /\ squirrel = InitSquirrel
    /\ acorn = InitAcorn
    /\ sprites = InitSprites
    /\ gs = init_game_state
    /\ nut_count = 0
    /\ input = NoInput
    /\ hit = FALSE
    /\ ticks = 0
    /\ since = 0
    /\ tickInput = NoInput
    /\ everHeld = FALSE
    /\ actor = InitSquirrel
    /\ actorPrev = actor
    /\ actorOp = "new"
    /\ actorOp2 = "new"
    /\ anim \in { NewAnimation(Frames(n), r) : n \in 1..MaxFrames, r \in 0..MaxRate }
    /\ animPrev = anim
    /\ animStart = anim
    /\ animTicks = 0
    /\ animOp = "new"
    /\ animOp2 = "new"
    /\ stopTicks = 0

\* the fields are pub(crate): a struct literal can set any index of the
\* frame list and any frame_counter in 0..rate
InitAnimAny ==
    /\ squirrel = InitSquirrel
    /\ acorn = InitAcorn
    /\ sprites = InitSprites
    /\ gs = init_game_state
    /\ nut_count = 0
    /\ input = NoInput
    /\ hit = FALSE
    /\ ticks = 0
    /\ since = 0
    /\ tickInput = NoInput
    /\ everHeld = FALSE
    /\ actor = InitSquirrel
    /\ actorPrev = actor
    /\ actorOp = "new"
    /\ actorOp2 = "new"
    /\ anim \in { [states |-> Frames(n), frame_counter |-> c, rate |-> r,
                   state_number |-> i] :
                  n \in 1..MaxFrames, r \in 0..MaxRate,
                  c \in 0..MaxRate, i \in 0..(MaxFrames - 1) }
    /\ anim.frame_counter <= anim.rate
    /\ anim.state_number < Len(anim.states)
    /\ animPrev = anim
    /\ animStart = anim
    /\ animTicks = 0
    /\ animOp = "new"
    /\ animOp2 = "new"
    /\ stopTicks = 0

AnimTick ==
    /\ animTicks < RunCap
    /\ anim' = Tick(anim)
    /\ animPrev' = anim
    /\ animTicks' = animTicks + 1
    /\ animOp' = "tick"
    /\ animOp2' = animOp
    /\ UNCHANGED <<animStart, stopTicks>>
    /\ UNCHANGED <<gameVars, actorVars>>

AnimStop ==
    /\ anim' = Stop(anim)
    /\ animPrev' = anim
    /\ stopTicks' = StopLoop(anim, 0).ticks
    /\ animStart' = anim'
    /\ animTicks' = 0
    /\ animOp' = "stop"
    /\ animOp2' = animOp
    /\ UNCHANGED <<gameVars, actorVars>>

NextAnim == AnimTick \/ AnimStop

SpecAnim == InitAnimNew /\ [][NextAnim]_vars

SpecAnimAny == InitAnimAny /\ [][NextAnim]_vars

---------------------------------------------------------------------------
(* A stand-alone actor driven by face_left(), face_right() and walk()      *)
(* (Char_action in char_action.rs, the same code as Character in main.rs). *)

ActorWidths == { -100, -64, 0, 64, 100 }

\* Char_action::new(screen_re, anim, spe, facing_rig, sprites_ind)
NewActor(region, an, spe, facing, ind) ==
    [screen_region |-> region, animation |-> an, speed |-> spe,
     facing_right |-> facing, sprites_index |-> ind]

InitActorAny ==
    /\ squirrel = InitSquirrel
    /\ acorn = InitAcorn
    /\ sprites = InitSprites
    /\ gs = init_game_state
    /\ nut_count = 0
    /\ input = NoInput
    /\ hit = FALSE
    /\ ticks = 0
    /\ since = 0
    /\ tickInput = NoInput
    /\ everHeld = FALSE
    /\ anim = NewAnimation(<<1>>, 0)
    /\ animPrev = anim
    /\ animStart = anim
    /\ animTicks = 0
    /\ animOp = "new"
    /\ animOp2 = "new"
    /\ stopTicks = 0
    /\ actor \in { NewActor(<<x * Scale, 32 * Scale, w * Scale, 100 * Scale>>,
                            NewAnimation(SquirrelStates, SquirrelRate),
                            SquirrelSpeed, f, 0) :
                   x \in {0, 32}, w \in ActorWidths, f \in BOOLEAN }
    /\ actorPrev = actor
    /\ actorOp = "new"
    /\ actorOp2 = "new"

ActorFaceLeft ==
    /\ actor' = FaceLeft(actor)
    /\ actorPrev' = actor
    /\ actorOp' = "face_left"
    /\ actorOp2' = actorOp
    /\ UNCHANGED <<gameVars, animVars>>

ActorFaceRight ==
    /\ actor' = FaceRight(actor)
    /\ actorPrev' = actor
    /\ actorOp' = "face_right"
    /\ actorOp2' = actorOp
    /\ UNCHANGED <<gameVars, animVars>>

ActorWalk ==
    /\ X(Walk(actor)) >= -ActorRange * Scale
    /\ X(Walk(actor)) <= ActorRange * Scale
    /\ actor' = Walk(actor)
    /\ actorPrev' = actor
    /\ actorOp' = "walk"
    /\ actorOp2' = actorOp
    /\ UNCHANGED <<gameVars, animVars>>

NextFace == ActorFaceLeft \/ ActorFaceRight \/ ActorWalk

SpecFace == InitActorAny /\ [][NextFace]_vars


---------------------------------------------------------------------------
(* A stand-alone falling actor driven by move_down() and reset_y()         *)
(* (Char_action in char_action.rs, the same code as Character in main.rs). *)

\* the speeds of the acorn after 0..MaxNuts nuts
FallSpeeds == { AcornSpeed + k * SpeedInc : k \in 0..MaxNuts }

\* heights in tenths: 1.5, 2.0, the acorn's first height, the reset height
FallHeights == { 15, 2 * Scale, AcornRegion[2], TopY }

InitFallAny ==
    /\ squirrel = InitSquirrel
    /\ acorn = InitAcorn
    /\ sprites = InitSprites
    /\ gs = init_game_state
    /\ nut_count = 0
    /\ input = NoInput
    /\ hit = FALSE
    /\ ticks = 0
    /\ since = 0
    /\ tickInput = NoInput
    /\ everHeld = FALSE
    /\ anim = NewAnimation(<<1>>, 0)
    /\ animPrev = anim
    /\ animStart = anim
    /\ animTicks = 0
    /\ animOp = "new"
    /\ animOp2 = "new"
    /\ stopTicks = 0
    /\ actor \in { NewActor(<<AcornRegion[1], y, AcornRegion[3], AcornRegion[4]>>,
                            NewAnimation(<<NutSheet>>, AcornRate), spe, TRUE, 1) :
                   y \in FallHeights, spe \in FallSpeeds }
    /\ actorPrev = actor
    /\ actorOp = "new"
    /\ actorOp2 = "new"

ActorMoveDown ==
    /\ \E rx \in Draws(Y(actor) - actor.speed <= 0) : actor' = MoveDown(actor, rx)
    /\ actorPrev' = actor
    /\ actorOp' = "move_down"
    /\ actorOp2' = actorOp
    /\ UNCHANGED <<gameVars, animVars>>

ActorResetY ==
    /\ \E rx \in RandX : actor' = ResetY(actor, rx)
    /\ actorPrev' = actor
    /\ actorOp' = "reset_y"
    /\ actorOp2' = actorOp
    /\ UNCHANGED <<gameVars, animVars>>

NextFall == ActorMoveDown \/ ActorResetY

SpecFall == InitFallAny /\ [][NextFall]_vars

---------------------------------------------------------------------------
(* Properties                                                              *)

\* C1: in every reachable state of the game each actor's facing_right
\* agrees with the sign of its width: facing_right exactly when width < 0.
\* Stated as claimed; the state built by run already breaks it.
FacingMatchesWidth ==
    \A c \in {squirrel, acorn} : c.facing_right <=> (W(c) < 0)

ScoreMonotone ==
    /\ gs.score = 0
    /\ [][ gs'.score = gs.score \/ gs'.score = gs.score + 1 ]_vars

ScoreKept == gs.score = 1 /\ ~hit /\ since > 0

\* the index one step after a: i + 1, or 0 when i + 1 reaches N - 1
StepIndex(a) ==
    IF a.state_number + 1 >= Len(a.states) - 1 THEN 0 ELSE a.state_number + 1

\* C4, as claimed: R + 1 calls of tick() from any state advance the index
\* by one step and leave frame_counter equal to 0.
TickRunResetsCounter ==
    animTicks = animStart.rate + 1 =>
        /\ anim.state_number = StepIndex(animStart)
        /\ anim.frame_counter = 0

\* C4, amended: R + 1 calls of tick() from any state advance the index by
\* one step and leave frame_counter equal to the value it started from.
TickRunKeepsCounter ==
    animTicks = animStart.rate + 1 =>
        /\ anim.state_number = StepIndex(animStart)
        /\ anim.frame_counter = animStart.frame_counter

TickRunFromMidFrame ==
    /\ animTicks = animStart.rate + 1
    /\ animStart.frame_counter > 0
    /\ animStart.state_number > 0
    /\ anim.state_number > 0

\* C5: for an Animation built at index 0 with a non-empty frame list, after
\* any calls of tick() and stop() the index is inside the frame list, so
\* get_current_state() indexes an element of it.
IndexInRange ==
    /\ anim.state_number >= 0
    /\ anim.state_number < Len(anim.states)
    /\ anim.state_number + 1 \in DOMAIN anim.states

IndexAtItsLargest ==
    /\ Len(anim.states) = MaxFrames
    /\ anim.state_number = Len(anim.states) - 2
    /\ animOp = "tick"
    /\ stopTicks > 0

StopRestsAndRepeats ==
    animOp = "stop" =>
        /\ anim.state_number = 0
        /\ stopTicks < StopFuel
        /\ animOp2 = "stop" => (stopTicks = 0 /\ anim = animPrev)

StoppedTwice ==
    /\ animOp = "stop"
    /\ animOp2 = "stop"
    /\ Len(anim.states) >= 3
    /\ anim.rate > 0

\* C8: a face_left() right after a face_left() changes neither the screen
\* rectangle nor facing_right, and likewise face_right() after face_right().
FlipIdempotent ==
    ( \/ actorOp = "face_left" /\ actorOp2 = "face_left"
      \/ actorOp = "face_right" /\ actorOp2 = "face_right" )
    => /\ actor.screen_region = actorPrev.screen_region
       /\ actor.facing_right = actorPrev.facing_right

FacedLeftTwice ==
    /\ actorOp = "face_left"
    /\ actorOp2 = "face_left"
    /\ W(actor) > 0
    /\ X(actor) < 0

\* C9: face_left() on an actor facing right with a negative width makes the
\* width positive with the same magnitude, lowers x by the flip offset
\* (60), clears facing_right and leaves y and height alone.
FaceLeftFromRight ==
    (actorOp = "face_left" /\ actorPrev.facing_right /\ W(actorPrev) < 0)
    => /\ W(actor) = -W(actorPrev)
       /\ W(actor) > 0
       /\ X(actor) = X(actorPrev) - 60 * Scale
       /\ ~actor.facing_right
       /\ Y(actor) = Y(actorPrev)
       /\ H(actor) = H(actorPrev)

FacedLeftFromMinus64 ==
    /\ actorOp = "face_left"
    /\ actorPrev.facing_right
    /\ W(actorPrev) = -64 * Scale
    /\ W(actor) = 64 * Scale

\* the call negated the width and moved x by dx
Flipped(dx) ==
    /\ W(actor) = -W(actorPrev)
    /\ X(actor) = X(actorPrev) + dx

\* the call changed neither width nor x
NotFlipped ==
    /\ W(actor) = W(actorPrev)
    /\ X(actor) = X(actorPrev)

\* C10, as claimed: face_left() flips exactly when width > 0 (and leaves
\* width and x alone when width < 0); face_right() flips exactly when
\* width < 0.
FlipWhenPositive ==
    /\ actorOp = "face_left" =>
         /\ W(actorPrev) > 0 => Flipped(-FlipOffset)
         /\ W(actorPrev) < 0 => NotFlipped
    /\ actorOp = "face_right" =>
         /\ W(actorPrev) < 0 => Flipped(FlipOffset)
         /\ W(actorPrev) > 0 => NotFlipped

\* C10, amended: face_left() flips exactly when width < 0 (the width
\* becomes positive, x moves left by the flip offset) and leaves width and
\* x alone when width > 0; face_right() flips exactly when width > 0.
FlipWhenMirrored ==
    /\ actorOp = "face_left" =>
         /\ W(actorPrev) < 0 => Flipped(-FlipOffset)
         /\ W(actorPrev) >= 0 => NotFlipped
    /\ actorOp = "face_right" =>
         /\ W(actorPrev) > 0 => Flipped(FlipOffset)
         /\ W(actorPrev) <= 0 => NotFlipped

FacedRightFromPositive ==
    /\ actorOp = "face_right"
    /\ W(actorPrev) > 0
    /\ W(actor) < 0


\* C11: when move_down() brings y - speed to 0 or below, the call ends
\* with y = 768 and x a whole number in 0..1024; otherwise x is unchanged
\* and y is the old y minus speed.
DescendRespawns ==
    actorOp = "move_down" =>
        LET below == Y(actorPrev) - actorPrev.speed IN
        /\ below <= 0 => /\ Y(actor) = 768 * Scale
                         /\ X(actor) \in { k * Scale : k \in 0..1024 }
        /\ below > 0  => /\ Y(actor) = below
                         /\ X(actor) = X(actorPrev)

DescendedFromOneAndAHalf ==
    /\ actorOp = "move_down"
    /\ Y(actorPrev) = 15
    /\ actorPrev.speed = 2 * Scale
    /\ Y(actor) = 768 * Scale


\* C12: at the end of a tick score_changing is true only if score was
\* incremented in that tick.
FlagOnlyWhenScored ==
    [][ ticks' = ticks + 1 =>
          (gs'.score_changing => gs'.score = gs.score + 1) ]_vars

FlagRaisedByScore ==
    /\ gs.score_changing
    /\ gs.score = 1
    /\ since = 0
    /\ ticks > 0

\* C13, as claimed: in every tick the player's box of the overlap test has
\* a strictly positive width.  The box of the last tick is the one built
\* from the published sprite and the player's facing.
EffectiveBoxPositive ==
    ticks > 0 => SquirrelBox(sprites, squirrel)[3] > 0

\* the whole pixel columns 0..1024, in tenths
Columns == { k * Scale : k \in 0..1024 }

LeftHasPriority ==
    [][ ticks' = ticks + 1 =>
          /\ input.left =>
               /\ ~squirrel'.facing_right
               /\ W(squirrel') = (IF W(squirrel) < 0 THEN -W(squirrel) ELSE W(squirrel))
               /\ X(squirrel') = X(squirrel) - squirrel.speed
                                  - (IF W(squirrel) < 0 THEN 60 * Scale ELSE 0)
               /\ squirrel'.animation = Tick(squirrel.animation)
          /\ (input.right /\ ~input.left) =>
               /\ squirrel'.facing_right
               /\ W(squirrel') = (IF W(squirrel) > 0 THEN -W(squirrel) ELSE W(squirrel))
               /\ X(squirrel') = X(squirrel) + squirrel.speed
                                  + (IF W(squirrel) > 0 THEN 60 * Scale ELSE 0)
               /\ squirrel'.animation = Tick(squirrel.animation)
          /\ (~input.left /\ ~input.right) =>
               /\ squirrel'.screen_region = squirrel.screen_region
               /\ squirrel'.facing_right = squirrel.facing_right ]_vars

BothHeldWentLeft ==
    /\ tickInput.left
    /\ tickInput.right
    /\ ~squirrel.facing_right
    /\ W(squirrel) > 0
    /\ squirrel.animation.state_number > 0

\* C16: a tick that reads neither direction held and the key-up signal
\* ends with the player's animation at index 0 and the first frame
\* published in the player's sprite slot; a tick that reads neither
\* direction and no key-up signal leaves the animation as it was.
StopOnKeyUp ==
    [][ (ticks' = ticks + 1 /\ ~input.left /\ ~input.right) =>
          /\ input.up =>
               /\ squirrel'.animation.state_number = 0
               /\ sprites'[squirrel.sprites_index + 1].sheet_region
                      = squirrel.animation.states[1]
          /\ ~input.up => squirrel'.animation = squirrel.animation ]_vars

RestedOnKeyUp ==
    /\ tickInput.up
    /\ everHeld
    /\ squirrel.animation.state_number = 0
    /\ squirrel.animation.frame_counter = 0
    /\ sprites[squirrel.sprites_index + 1].sheet_region = 1

\* C17, as claimed: at the end of every tick each actor's sprite slot holds
\* the actor's own screen rectangle.
SpritesMatchActors ==
    ticks > 0 =>
        \A c \in {squirrel, acorn} :
            sprites[c.sprites_index + 1].screen_region = c.screen_region

\* C18: while no tick has read left or right as held, no tick's overlap
\* test is true, whatever column the acorn is in, and score, nut_count
\* and the acorn's speed keep their first values.
NoCatchBeforeFirstKey ==
    ~everHeld =>
        /\ ~hit
        /\ gs.score = 0
        /\ nut_count = 0
        /\ acorn.speed = 2 * Scale
        /\ \A ax \in Columns :
              ~Overlap(<<ax, Y(acorn), W(acorn), H(acorn)>>,
                       SquirrelBox(sprites, squirrel))

AcornPassedIdlePlayer ==
    /\ ~everHeld
    /\ ticks > 0
    /\ Y(acorn) = 40 * Scale
    /\ X(acorn) = 20 * Scale

\* C19: the acorn stays in the visible area: 0 < y <= 768 and
\* 0 <= x <= 1024.
AcornVisible ==
    /\ Y(acorn) > 0
    /\ Y(acorn) <= 768 * Scale
    /\ X(acorn) >= 0
    /\ X(acorn) <= 1024 * Scale

AcornRespawnedAtBottom ==
    /\ nut_count = 0
    /\ ~hit
    /\ ticks > 0
    /\ Y(acorn) = 768 * Scale

=============================================================================
